---- MODULE Spec2Model ----
(***************************************************************************)
(* merge-coin (src/src/main.ts): a process that lists the token types of   *)
(* an account, pages through the coin objects of each type and submits one *)
(* merge transaction per batch of coin objects.                            *)
(*                                                                         *)
(* Line 151 starts main() whenever the module is loaded, so every process  *)
(* has the flow MainFlow.  When the file is run as a script that is the    *)
(* only flow.  When another module imports the file to use the exported    *)
(* mergeCoinObjects, each of its calls is a further flow, with a batch     *)
(* size and a key of the caller's choice; the calls may follow one another *)
(* or overlap, and they run interleaved with main's flow.                  *)
(* Each flow is sequential: pc[f] is its position.  The answer of a remote *)
(* call (a response or a failure) is chosen by the environment.  The flows *)
(* share one thread: a flow runs from one await to the next, and at every  *)
(* await any other flow may go on.  The variables of a mergeCoinObjects    *)
(* run are local to the flow that makes the run, and the locals of a call  *)
(* are dropped once it has returned.  The server answers every flow alike. *)
(* The model holds at most MaxCalls direct calls in progress at a time and *)
(* at most MaxRemoteCalls remote calls per process.                        *)
(*                                                                         *)
(* The numeric program constants are scaled down, keeping their order and  *)
(* divisibility: ObjectCap 5000 -> 4, PageLimit 50 -> 2,                   *)
(* DefaultBatchSize 500 -> 2.                                              *)
(***************************************************************************)
EXTENDS Integers, Sequences, FiniteSets

\* ---------------------------------------------------------------- constants
\* main.ts:38  allCoins.length >= 5000   (scaled)
ObjectCap == 4
\* main.ts:34  limit: 50                 (scaled)
PageLimit == 2
\* main.ts:146 mergeCoinObjects(privateKey, token, 500)   (scaled)
DefaultBatchSize == 2

\* ------------------------------------------------------------------- bounds
\* page requests one listing may issue in the model
MaxPages == 5
\* entries in one getAllBalances response
MaxBalances == 2
\* largest batch size a direct caller of mergeCoinObjects passes
MaxBatchSize == 3
\* remote calls (getAllBalances, getCoins, signAndExecuteTransaction) one
\* process may issue in the model, all flows together
MaxRemoteCalls == 5
\* direct calls of the exported mergeCoinObjects in progress at the same time
MaxCalls == 1

\* ------------------------------------------------------------------- values
TokenTypes == {"t1", "t2"}
Balances == {0, 1}
\* cursor values: null, undefined, and the opaque cursors 1, 2, ...
NullCursor == 0
Undefined == -1


\* the flows of control of a process: main() of line 151 is flow 0, and the
\* direct calls of the exported mergeCoinObjects by an importing module are
\* the flows 1, 2, ...
MainFlow == 0
Calls == 1..MaxCalls
Flows == {MainFlow} \cup Calls

VARIABLES
    mode,            \* "script": node runs the file; "import": another module loads it
    keyOk,           \* per flow: the key decodes / builds a key pair (main: the environment's key)
                     \*           (a direct call: its privateKey argument)
    pc,              \* per flow: position of the flow
    err,             \* per flow: the error being thrown, "none" when there is none
    exitCode,        \* process exit status of the script, -1 while running
    allBalances,     \* getOwnedTokens: the response of getAllBalances
    balOutcome,      \* what the balance listing answered: none/failed/empty/nonempty
    ownedTokens,     \* main: result of getOwnedTokens
    tokIdx,          \* main: position in the for..of loop over ownedTokens
    mergeCalls,      \* the mergeCoinObjects calls main made: <<token, batchSize>>
    batchSize,       \* per flow: mergeCoinObjects: parameter
    allCoins,        \* per flow: getAllTokenObjectIds: accumulator
    cursor,          \* per flow: getAllTokenObjectIds: cursor of the next request
    hasMore,         \* per flow: getAllTokenObjectIds: loop flag
    reqCount,        \* per flow: number of getCoins requests issued in this run
    lastRequest,     \* per flow: cursor carried by the latest getCoins request
    respCount,       \* per flow: number of successful getCoins responses in this run
    lastResponse,    \* per flow: the latest successful getCoins response
    received,        \* per flow: every identifier the server sent in this run, in order
    listFailed,      \* per flow: a getCoins request of this run failed
    tokenObjectIds,  \* per flow: mergeCoinObjects: result of getAllTokenObjectIds
    i,               \* per flow: mergeCoinObjects: batch loop index
    txs,             \* per flow: transactions handed to signAndExecuteTransaction in this run
    events,          \* per flow: "submit" / "pause" in the order they happened in this run
    submitFailed,    \* per flow: a signAndExecuteTransaction call of this run failed
    inFlight,        \* the remote calls made and not yet answered: <<flow, call>>
    listerCalls,     \* per flow: getAllTokenObjectIds calls made by this run
    remoteCalls      \* number of remote calls the process has issued

vars == <<mode, keyOk, pc, err, exitCode, allBalances, balOutcome, ownedTokens,
          tokIdx, mergeCalls, batchSize, allCoins, cursor, hasMore, reqCount,
          lastRequest, respCount, lastResponse, received, listFailed,
          tokenObjectIds, i, txs, events, submitFailed, inFlight, listerCalls,
          remoteCalls>>

procVars == <<mode, keyOk, exitCode>>
mainVars == <<allBalances, balOutcome, ownedTokens, tokIdx, mergeCalls>>
histVars == <<reqCount, lastRequest, respCount, lastResponse, received>>
listVars == <<allCoins, cursor, hasMore, histVars, listFailed>>
batchVars == <<i, txs, events, submitFailed>>

\* ------------------------------------------------------------------ helpers
Min(a, b) == IF a < b THEN a ELSE b

\* Array.prototype.slice(from, to) with 0-based, end-exclusive indices
Slice(s, from, to) == [k \in 1..(to - from) |-> s[from + k]]

\* lines 11, 30, 95: a remote call is made
Issued(calls, c) == Append(calls, c)

\* lines 11, 30, 95: the call flow f awaits is answered (a result or an error)
Answered(calls, f) == SelectSeq(calls, LAMBDA c : c[1] /= f)

\* ---------------------------------------------------------- getOwnedTokens
\* mutant: keeps only the entries with a nonzero balance
MapCoinTypes_NonZero(bals) ==
    LET held == SelectSeq(bals, LAMBDA b : b.totalBalance /= 0)
    IN  [k \in 1..Len(held) |-> held[k].coinType]

\* line 14: allBalances.map(balance => balance.coinType)
MapCoinTypes(bals) == [k \in 1..Len(bals) |-> bals[k].coinType]

\* mutant: a default token list instead of the empty list
OwnedTokensOnError_Default == <<"t1">>

\* line 19: the catch block's result
OwnedTokensOnError == <<>>

\* getAllBalances responses: lists of {coinType, totalBalance}
RECURSIVE SeqsUpTo(_, _)
SeqsUpTo(S, n) ==
    IF n = 0 THEN {<<>>}
    ELSE LET shorter == SeqsUpTo(S, n - 1)
         IN  shorter \cup {Append(s, x) : s \in {t \in shorter : Len(t) = n - 1}, x \in S}

BalanceEntries == [coinType : TokenTypes, totalBalance : Balances]
BalanceResponses == SeqsUpTo(BalanceEntries, MaxBalances)

\* ---------------------------------------------------- getAllTokenObjectIds
\* mutant: the new page is put in front of the accumulated identifiers
AppendPage_Prepend(coins, data) == data \o coins

\* line 37: [...allCoins, ...data.map(coin => coin.coinObjectId)]
AppendPage(coins, data) == coins \o data

\* mutant: > instead of >=
CapReached_Strict(coins) == Len(coins) > ObjectCap

\* line 38: allCoins.length >= 5000
CapReached(coins) == Len(coins) >= ObjectCap

\* line 43: nextCursor ?? null
OrNull(c) == IF c = Undefined THEN NullCursor ELSE c

\* mutant: the catch block returns what was accumulated so far
CoinsOnError_Partial(coins) == coins

\* line 49: the catch block's result, whatever was accumulated
CoinsOnError(coins) == <<>>

\* The server names its coin objects 1, 2, 3, ... in listing order, so a page
\* of n objects that follows pages holding `sent` objects is sent+1 .. sent+n.
PageData(sent, n) == [k \in 1..n |-> sent + k]

\* value of lastResponse before the first response of a run
NoResponse == [data |-> <<>>, hasNextPage |-> TRUE, nextCursor |-> NullCursor]

\* -------------------------------------------------------- mergeCoinObjects
\* mutant: only the empty list returns early
NothingToMerge_Empty(ids) == Len(ids) = 0

\* lines 68 and 74: tokenObjectIds.length <= 1
NothingToMerge(ids) == Len(ids) <= 1

\* mutant: the slice starts one element early
BatchAt_Overlap(ids, idx, B) ==
    Slice(ids, IF idx > 0 THEN idx - 1 ELSE 0, Min(idx + B, Len(ids)))

\* line 81: tokenObjectIds.slice(i, Math.min(i + batchSize, tokenObjectIds.length))
BatchAt(ids, idx, B) == Slice(ids, idx, Min(idx + B, Len(ids)))

\* mutant: >= 1 instead of > 1
Mergeable_One(batch) == Len(batch) >= 1

\* line 83: batch.length > 1
Mergeable(batch) == Len(batch) > 1

\* mutant: the inner loop starts at j = 0 and merges the primary coin too
BuildTx_FromZero(batch) == [primary |-> batch[1], merged |-> batch]

\* lines 84-92: primary coin batch[0], mergeCoins(primary, [batch[j]]) for j = 1..
BuildTx(batch) == [primary |-> batch[1], merged |-> Tail(batch)]

\* mutant: <= instead of <
NeedPause_Le(idx, B, n) == idx + B <= n

\* line 106: i + batchSize < tokenObjectIds.length
NeedPause(idx, B, n) == idx + B < n

\* mutant: the submission is not awaited; the loop goes on at once
AwaitSubmit_Missing == "batch_loop"

\* line 95: await client.signAndExecuteTransaction(...): the position of the
\* thread once the call is made
AwaitSubmit == "submit_wait"

\* mutant: the coins are listed again before the next batch
LoopBack_Relist == "merge_start"

\* line 80: i += batchSize; back to the loop test
LoopBack == "batch_loop"

\* mutant: the catch block logs and does not rethrow
MergeCatch_Swallow(e) == "none"

\* lines 114-117: catch (error) { console.error(...); throw error; }
\* The value is the error that leaves the catch block, "none" if none does.
MergeCatch(e) == e

\* how an async function whose body ended with error e settles
Settled(e) == IF e = "none" THEN "merge_returned" ELSE "merge_threw"

\* ------------------------------------------------------------------- main
\* mutant: the tokens are taken from the end of the list
NextToken_Reversed(owned, idx) == owned[Len(owned) - idx + 1]

\* line 141: for (const token of ownedTokens): the token of iteration idx
NextToken(owned, idx) == owned[idx]

\* line 134: ownedTokens.length === 0
NoOwnedTokens(owned) == Len(owned) = 0


\* line 151: main().catch(console.error): the rejection is handled, the event
\* loop drains and node exits with its default status.
ExitStatusAfterCatch(e) == 0

\* ------------------------------------------------------------- scheduling
\* Node runs one flow at a time: a flow runs on until its next await (or its
\* end); at an await it gives up the thread, and any other flow, callback or
\* answer may run before it goes on.
\* positions where a flow is suspended at an await: of a remote call or the
\* timer (lines 11, 30, 95, 107), or of an async function of the file that
\* has just settled (line 133: getOwnedTokens, line 66: getAllTokenObjectIds,
\* line 143: mergeCoinObjects called by main)
WaitPcs(f) == {"balances_wait", "list_wait", "submit_wait", "pause_wait",
               "main_owned", "merge_check"}
              \cup (IF f = MainFlow THEN {"merge_returned", "merge_threw"} ELSE {})
\* positions where flow f has no code to run: main's body has ended (what
\* line 151 does with its promise is a later callback); no direct call is
\* in progress in record f
EndPcs(f) == IF f = MainFlow THEN {"main_resolved", "main_rejected", "main_settled", "exited"}
             ELSE {"idle"}

\* flow f cannot go on because the model's bounds stop its next remote call
AtBound(f) ==
    \/ /\ pc[f] = "list_loop"
       /\ hasMore[f]
       /\ (reqCount[f] >= MaxPages \/ remoteCalls >= MaxRemoteCalls)
    \/ /\ pc[f] = "batch_loop"
       /\ i[f] < Len(tokenObjectIds[f])
       /\ Mergeable(BatchAt(tokenObjectIds[f], i[f], batchSize[f]))
       /\ remoteCalls >= MaxRemoteCalls

\* flow f holds the thread
Running(f) == pc[f] \notin WaitPcs(f) \cup EndPcs(f) /\ ~AtBound(f)

\* flow f may take a step: no other flow holds the thread
Turn(f) == \A g \in Flows \ {f} : ~Running(g)

\* ------------------------------------------------------------------- Init
Init ==
    /\ mode \in {"script", "import"}
    /\ keyOk \in {k \in [Flows -> BOOLEAN] : \A f \in Calls : ~k[f]}
    /\ pc = [f \in Flows |-> IF f = MainFlow THEN "main_start" ELSE "idle"]
    /\ err = [f \in Flows |-> "none"]
    /\ exitCode = -1
    /\ allBalances = <<>>
    /\ balOutcome = "none"
    /\ ownedTokens = <<>>
    /\ tokIdx = 0
    /\ mergeCalls = <<>>
    /\ batchSize = [f \in Flows |-> DefaultBatchSize]
    /\ allCoins = [f \in Flows |-> <<>>]
    /\ cursor = [f \in Flows |-> NullCursor]
    /\ hasMore = [f \in Flows |-> TRUE]
    /\ reqCount = [f \in Flows |-> 0]
    /\ lastRequest = [f \in Flows |-> NullCursor]
    /\ respCount = [f \in Flows |-> 0]
    /\ lastResponse = [f \in Flows |-> NoResponse]
    /\ received = [f \in Flows |-> <<>>]
    /\ listFailed = [f \in Flows |-> FALSE]
    /\ tokenObjectIds = [f \in Flows |-> <<>>]
    /\ i = [f \in Flows |-> 0]
    /\ txs = [f \in Flows |-> <<>>]
    /\ events = [f \in Flows |-> <<>>]
    /\ submitFailed = [f \in Flows |-> FALSE]
    /\ inFlight = <<>>
    /\ listerCalls = [f \in Flows |-> 0]
    /\ remoteCalls = 0

\* ------------------------------------------------------------ main, part 1
\* lines 122-133: decode the key, derive the address, call getOwnedTokens,
\* which awaits getAllBalances.
MainStart ==
    /\ Turn(MainFlow)
    /\ pc[MainFlow] = "main_start"
    /\ keyOk[MainFlow]
    /\ pc' = [pc EXCEPT ![MainFlow] = "balances_wait"]
    /\ remoteCalls < MaxRemoteCalls
    /\ inFlight' = Issued(inFlight, <<MainFlow, "getAllBalances">>)
    /\ remoteCalls' = remoteCalls + 1
    /\ UNCHANGED <<listerCalls, procVars, err, mainVars, batchSize, listVars,
                   tokenObjectIds, batchVars>>

\* line 126/128: decodeSuiPrivateKey or fromSecretKey throws; main rejects.
MainKeyFail ==
    /\ Turn(MainFlow)
    /\ pc[MainFlow] = "main_start"
    /\ ~keyOk[MainFlow]
    /\ err' = [err EXCEPT ![MainFlow] = "key"]
    /\ pc' = [pc EXCEPT ![MainFlow] = "main_rejected"]
    /\ UNCHANGED <<inFlight, listerCalls, remoteCalls, procVars, mainVars, batchSize, listVars,
                   tokenObjectIds, batchVars>>

\* lines 11-16: getAllBalances answers; getOwnedTokens returns the coin types.
GetOwnedTokensOk ==
    /\ Turn(MainFlow)
    /\ pc[MainFlow] = "balances_wait"
    /\ \E resp \in BalanceResponses :
          /\ allBalances' = resp
          /\ balOutcome' = IF resp = <<>> THEN "empty" ELSE "nonempty"
          /\ ownedTokens' = MapCoinTypes(resp)
    /\ pc' = [pc EXCEPT ![MainFlow] = "main_owned"]
    /\ inFlight' = Answered(inFlight, MainFlow)
    /\ UNCHANGED <<listerCalls, remoteCalls, procVars, err, tokIdx, mergeCalls, batchSize,
                   listVars, tokenObjectIds, batchVars>>

\* lines 17-20: getAllBalances fails; getOwnedTokens logs and returns [].
GetOwnedTokensFail ==
    /\ Turn(MainFlow)
    /\ pc[MainFlow] = "balances_wait"
    /\ balOutcome' = "failed"
    /\ ownedTokens' = OwnedTokensOnError
    /\ pc' = [pc EXCEPT ![MainFlow] = "main_owned"]
    /\ inFlight' = Answered(inFlight, MainFlow)
    /\ UNCHANGED <<listerCalls, remoteCalls, procVars, err, allBalances, tokIdx, mergeCalls,
                   batchSize, listVars, tokenObjectIds, batchVars>>

\* lines 134-141: nothing owned: return; otherwise enter the loop.  The
\* response of getAllBalances was local to getOwnedTokens and is gone.
MainCheckOwned ==
    /\ Turn(MainFlow)
    /\ pc[MainFlow] = "main_owned"
    /\ allBalances' = <<>>
    /\ IF NoOwnedTokens(ownedTokens)
          THEN /\ pc' = [pc EXCEPT ![MainFlow] = "main_resolved"]
               /\ UNCHANGED tokIdx
          ELSE /\ pc' = [pc EXCEPT ![MainFlow] = "main_loop"]
               /\ tokIdx' = 1
    /\ UNCHANGED <<inFlight, listerCalls, remoteCalls, procVars, err, balOutcome, ownedTokens,
                   mergeCalls, batchSize, listVars, tokenObjectIds, batchVars>>

\* lines 141-147: next token: call mergeCoinObjects(privateKey, token, 500).
\* The call's locals are fresh.
MainCallMerge ==
    /\ Turn(MainFlow)
    /\ pc[MainFlow] = "main_loop"
    /\ tokIdx <= Len(ownedTokens)
    /\ mergeCalls' = Append(mergeCalls, <<NextToken(ownedTokens, tokIdx), DefaultBatchSize>>)
    /\ batchSize' = [batchSize EXCEPT ![MainFlow] = DefaultBatchSize]
    /\ allCoins' = [allCoins EXCEPT ![MainFlow] = <<>>]
    /\ cursor' = [cursor EXCEPT ![MainFlow] = NullCursor]
    /\ hasMore' = [hasMore EXCEPT ![MainFlow] = TRUE]
    /\ reqCount' = [reqCount EXCEPT ![MainFlow] = 0]
    /\ lastRequest' = [lastRequest EXCEPT ![MainFlow] = NullCursor]
    /\ respCount' = [respCount EXCEPT ![MainFlow] = 0]
    /\ lastResponse' = [lastResponse EXCEPT ![MainFlow] = NoResponse]
    /\ received' = [received EXCEPT ![MainFlow] = <<>>]
    /\ listFailed' = [listFailed EXCEPT ![MainFlow] = FALSE]
    /\ tokenObjectIds' = [tokenObjectIds EXCEPT ![MainFlow] = <<>>]
    /\ i' = [i EXCEPT ![MainFlow] = 0]
    /\ txs' = [txs EXCEPT ![MainFlow] = <<>>]
    /\ events' = [events EXCEPT ![MainFlow] = <<>>]
    /\ submitFailed' = [submitFailed EXCEPT ![MainFlow] = FALSE]
    /\ listerCalls' = [listerCalls EXCEPT ![MainFlow] = 0]
    /\ pc' = [pc EXCEPT ![MainFlow] = "merge_start"]
    /\ UNCHANGED <<inFlight, remoteCalls, procVars, err, allBalances, balOutcome, ownedTokens,
                   tokIdx>>

\* lines 141, 148-149: the loop is exhausted; main resolves.
MainLoopDone ==
    /\ Turn(MainFlow)
    /\ pc[MainFlow] = "main_loop"
    /\ tokIdx > Len(ownedTokens)
    /\ pc' = [pc EXCEPT ![MainFlow] = "main_resolved"]
    /\ UNCHANGED <<inFlight, listerCalls, remoteCalls, procVars, err, mainVars, batchSize,
                   listVars, tokenObjectIds, batchVars>>

\* lines 53-58: a module that imported the file calls the exported
\* mergeCoinObjects with a key and a batch size of its choice, while no flow
\* holds the thread.  The module was loaded before, so main() has run up to
\* its first await or its failure.  The call may follow an earlier call that
\* has settled or be made while other calls are in progress; it takes a free
\* record f, whose locals are fresh.
DirectCall(f) ==
    /\ f \in Calls
    /\ \A g \in Flows : ~Running(g)
    /\ mode = "import"
    /\ pc[MainFlow] /= "main_start"
    /\ pc[f] = "idle"
    /\ \E B \in 1..MaxBatchSize, k \in BOOLEAN :
          /\ batchSize' = [batchSize EXCEPT ![f] = B]
          /\ keyOk' = [keyOk EXCEPT ![f] = k]
    /\ pc' = [pc EXCEPT ![f] = "merge_start"]
    /\ UNCHANGED <<inFlight, listerCalls, remoteCalls, mode, exitCode, err, mainVars,
                   listVars, tokenObjectIds, batchVars>>

\* line 118: a direct call of mergeCoinObjects has ended, by its return or by
\* the rethrow of line 116: its promise settles and its locals are gone.
CallSettled(f) ==
    /\ f \in Calls
    /\ Turn(f)
    /\ pc[f] \in {"merge_returned", "merge_threw"}
    /\ keyOk' = [keyOk EXCEPT ![f] = FALSE]
    /\ batchSize' = [batchSize EXCEPT ![f] = DefaultBatchSize]
    /\ err' = [err EXCEPT ![f] = "none"]
    /\ allCoins' = [allCoins EXCEPT ![f] = <<>>]
    /\ cursor' = [cursor EXCEPT ![f] = NullCursor]
    /\ hasMore' = [hasMore EXCEPT ![f] = TRUE]
    /\ reqCount' = [reqCount EXCEPT ![f] = 0]
    /\ lastRequest' = [lastRequest EXCEPT ![f] = NullCursor]
    /\ respCount' = [respCount EXCEPT ![f] = 0]
    /\ lastResponse' = [lastResponse EXCEPT ![f] = NoResponse]
    /\ received' = [received EXCEPT ![f] = <<>>]
    /\ listFailed' = [listFailed EXCEPT ![f] = FALSE]
    /\ tokenObjectIds' = [tokenObjectIds EXCEPT ![f] = <<>>]
    /\ i' = [i EXCEPT ![f] = 0]
    /\ txs' = [txs EXCEPT ![f] = <<>>]
    /\ events' = [events EXCEPT ![f] = <<>>]
    /\ submitFailed' = [submitFailed EXCEPT ![f] = FALSE]
    /\ listerCalls' = [listerCalls EXCEPT ![f] = 0]
    /\ pc' = [pc EXCEPT ![f] = "idle"]
    /\ UNCHANGED <<inFlight, remoteCalls, mode, exitCode, mainVars>>

\* ------------------------------------------------------- mergeCoinObjects
\* lines 61-66 and 25-27: build the key pair, call getAllTokenObjectIds,
\* which initialises its locals and enters the paging loop.
MergeStart(f) ==
    /\ Turn(f)
    /\ pc[f] = "merge_start"
    /\ keyOk[f]
    /\ allCoins' = [allCoins EXCEPT ![f] = <<>>]
    /\ cursor' = [cursor EXCEPT ![f] = NullCursor]
    /\ hasMore' = [hasMore EXCEPT ![f] = TRUE]
    /\ pc' = [pc EXCEPT ![f] = "list_loop"]
    /\ listerCalls' = [listerCalls EXCEPT ![f] = @ + 1]
    /\ UNCHANGED <<inFlight, remoteCalls, procVars, err, mainVars, batchSize, histVars,
                   listFailed, tokenObjectIds, batchVars>>

\* line 62 throws inside the try; lines 114-117 log and rethrow.
MergeKeyFail(f) ==
    /\ Turn(f)
    /\ pc[f] = "merge_start"
    /\ ~keyOk[f]
    /\ err' = [err EXCEPT ![f] = MergeCatch("key")]
    /\ pc' = [pc EXCEPT ![f] = Settled(err'[f])]
    /\ UNCHANGED <<inFlight, listerCalls, remoteCalls, procVars, mainVars, batchSize, listVars,
                   tokenObjectIds, batchVars>>

\* lines 29-35: while (hasMore): issue getCoins with the current cursor.
ListerRequest(f) ==
    /\ Turn(f)
    /\ pc[f] = "list_loop"
    /\ hasMore[f]
    /\ reqCount[f] < MaxPages
    /\ reqCount' = [reqCount EXCEPT ![f] = @ + 1]
    /\ lastRequest' = [lastRequest EXCEPT ![f] = cursor[f]]
    /\ pc' = [pc EXCEPT ![f] = "list_wait"]
    /\ remoteCalls < MaxRemoteCalls
    /\ inFlight' = Issued(inFlight, <<f, "getCoins">>)
    /\ remoteCalls' = remoteCalls + 1
    /\ UNCHANGED <<listerCalls, procVars, err, mainVars, batchSize, allCoins,
                   cursor, hasMore, respCount, lastResponse, received, listFailed,
                   tokenObjectIds, batchVars>>

\* lines 30-43: a page arrives: accumulate, stop at the cap, else go on.
\* sizes: the numbers of identifiers the server may put in the page.
ListerResponseWith(f, sizes) ==
    /\ Turn(f)
    /\ pc[f] = "list_wait"
    /\ \E n \in sizes, more \in BOOLEAN,
          next \in {NullCursor, Undefined, reqCount[f]} :
          LET data == PageData(Len(received[f]), n)
              coins == AppendPage(allCoins[f], data)
          IN  /\ lastResponse' = [lastResponse EXCEPT ![f] =
                     [data |-> data, hasNextPage |-> more, nextCursor |-> next]]
              /\ respCount' = [respCount EXCEPT ![f] = @ + 1]
              /\ received' = [received EXCEPT ![f] = @ \o data]
              /\ allCoins' = [allCoins EXCEPT ![f] = coins]
              /\ IF CapReached(coins)
                    THEN /\ pc' = [pc EXCEPT ![f] = "list_return"]
                         /\ UNCHANGED <<hasMore, cursor>>
                    ELSE /\ pc' = [pc EXCEPT ![f] = "list_loop"]
                         /\ hasMore' = [hasMore EXCEPT ![f] = more]
                         /\ cursor' = [cursor EXCEPT ![f] = OrNull(next)]
    /\ inFlight' = Answered(inFlight, f)
    /\ UNCHANGED <<listerCalls, remoteCalls, procVars, err, mainVars, batchSize, reqCount,
                   lastRequest, listFailed, tokenObjectIds, batchVars>>

\* a page of any size up to the limit
ListerResponse(f) == ListerResponseWith(f, 0..PageLimit)

\* a page from a server that never sends an empty page
ListerResponseNonEmpty(f) == ListerResponseWith(f, 1..PageLimit)

\* lines 44-46: the loop has ended (break or hasMore false): return allCoins.
ListerReturn(f) ==
    /\ Turn(f)
    /\ \/ pc[f] = "list_return"
       \/ pc[f] = "list_loop" /\ ~hasMore[f]
    /\ tokenObjectIds' = [tokenObjectIds EXCEPT ![f] = allCoins[f]]
    /\ pc' = [pc EXCEPT ![f] = "merge_check"]
    /\ UNCHANGED <<inFlight, listerCalls, remoteCalls, procVars, err, mainVars, batchSize,
                   listVars, batchVars>>

\* lines 47-50: getCoins fails: log, return [].
ListerFail(f) ==
    /\ Turn(f)
    /\ pc[f] = "list_wait"
    /\ listFailed' = [listFailed EXCEPT ![f] = TRUE]
    /\ tokenObjectIds' = [tokenObjectIds EXCEPT ![f] = CoinsOnError(allCoins[f])]
    /\ pc' = [pc EXCEPT ![f] = "merge_check"]
    /\ inFlight' = Answered(inFlight, f)
    /\ UNCHANGED <<listerCalls, remoteCalls, procVars, err, mainVars, batchSize, allCoins,
                   cursor, hasMore, histVars, batchVars>>

\* lines 68-80: at most one coin: return; otherwise start the batch loop.
\* The locals of getAllTokenObjectIds, which has returned, are gone.
MergeCheck(f) ==
    /\ Turn(f)
    /\ pc[f] = "merge_check"
    /\ IF NothingToMerge(tokenObjectIds[f])
          THEN pc' = [pc EXCEPT ![f] = "merge_returned"]
          ELSE pc' = [pc EXCEPT ![f] = "batch_loop"]
    /\ i' = [i EXCEPT ![f] = 0]
    /\ allCoins' = [allCoins EXCEPT ![f] = <<>>]
    /\ cursor' = [cursor EXCEPT ![f] = NullCursor]
    /\ hasMore' = [hasMore EXCEPT ![f] = TRUE]
    /\ lastRequest' = [lastRequest EXCEPT ![f] = NullCursor]
    /\ lastResponse' = [lastResponse EXCEPT ![f] = NoResponse]
    /\ received' = [received EXCEPT ![f] = <<>>]
    /\ UNCHANGED <<inFlight, listerCalls, remoteCalls, procVars, err, mainVars, batchSize,
                   reqCount, respCount, listFailed, tokenObjectIds, txs, events,
                   submitFailed>>

\* lines 80-102: a batch with more than one coin: build the transaction and
\* await signAndExecuteTransaction.
BatchSubmit(f) ==
    /\ Turn(f)
    /\ pc[f] = "batch_loop"
    /\ i[f] < Len(tokenObjectIds[f])
    /\ LET batch == BatchAt(tokenObjectIds[f], i[f], batchSize[f])
       IN  /\ Mergeable(batch)
           /\ txs' = [txs EXCEPT ![f] = Append(@, BuildTx(batch))]
    /\ events' = [events EXCEPT ![f] = Append(@, "submit")]
    /\ pc' = [pc EXCEPT ![f] = AwaitSubmit]
    /\ remoteCalls < MaxRemoteCalls
    /\ inFlight' = Issued(inFlight, <<f, "signAndExecuteTransaction">>)
    /\ remoteCalls' = remoteCalls + 1
    /\ UNCHANGED <<listerCalls, procVars, err, mainVars, batchSize, listVars,
                   tokenObjectIds, i, submitFailed>>

\* lines 80-83, 109-110: a batch of one coin: nothing is built; next batch.
BatchSkip(f) ==
    /\ Turn(f)
    /\ pc[f] = "batch_loop"
    /\ i[f] < Len(tokenObjectIds[f])
    /\ ~Mergeable(BatchAt(tokenObjectIds[f], i[f], batchSize[f]))
    /\ i' = [i EXCEPT ![f] = @ + batchSize[f]]
    /\ UNCHANGED <<inFlight, listerCalls, remoteCalls, procVars, pc, err, mainVars, batchSize,
                   listVars, tokenObjectIds, txs, events, submitFailed>>

\* lines 103-108: the submission succeeded: pause if another batch follows.
SubmitOk(f) ==
    /\ Turn(f)
    /\ pc[f] = "submit_wait"
    /\ IF NeedPause(i[f], batchSize[f], Len(tokenObjectIds[f]))
          THEN /\ events' = [events EXCEPT ![f] = Append(@, "pause")]
               /\ pc' = [pc EXCEPT ![f] = "pause_wait"]
               /\ UNCHANGED i
          ELSE /\ i' = [i EXCEPT ![f] = @ + batchSize[f]]
               /\ pc' = [pc EXCEPT ![f] = LoopBack]
               /\ UNCHANGED events
    /\ inFlight' = Answered(inFlight, f)
    /\ UNCHANGED <<listerCalls, remoteCalls, procVars, err, mainVars, batchSize, listVars,
                   tokenObjectIds, txs, submitFailed>>

\* lines 95, 114-117: the submission failed: log and rethrow.
SubmitFail(f) ==
    /\ Turn(f)
    /\ pc[f] = "submit_wait"
    /\ submitFailed' = [submitFailed EXCEPT ![f] = TRUE]
    /\ err' = [err EXCEPT ![f] = MergeCatch("submit")]
    /\ pc' = [pc EXCEPT ![f] = Settled(err'[f])]
    /\ inFlight' = Answered(inFlight, f)
    /\ UNCHANGED <<listerCalls, remoteCalls, procVars, mainVars, batchSize, listVars,
                   tokenObjectIds, i, txs, events>>

\* line 107: the timer fires; next batch.
PauseElapsed(f) ==
    /\ Turn(f)
    /\ pc[f] = "pause_wait"
    /\ i' = [i EXCEPT ![f] = @ + batchSize[f]]
    /\ pc' = [pc EXCEPT ![f] = LoopBack]
    /\ UNCHANGED <<inFlight, listerCalls, remoteCalls, procVars, err, mainVars, batchSize,
                   listVars, tokenObjectIds, txs, events, submitFailed>>

\* lines 80, 112: the batch loop is exhausted: return.
MergeDone(f) ==
    /\ Turn(f)
    /\ pc[f] = "batch_loop"
    /\ i[f] >= Len(tokenObjectIds[f])
    /\ pc' = [pc EXCEPT ![f] = "merge_returned"]
    /\ UNCHANGED <<inFlight, listerCalls, remoteCalls, procVars, err, mainVars, batchSize,
                   listVars, tokenObjectIds, batchVars>>

\* ------------------------------------------------------------ main, part 2
\* lines 141-148: mergeCoinObjects returned: next iteration.  The locals of
\* the call that has returned are gone.
MainMergeReturned ==
    /\ Turn(MainFlow)
    /\ pc[MainFlow] = "merge_returned"
    /\ tokIdx' = tokIdx + 1
    /\ pc' = [pc EXCEPT ![MainFlow] = "main_loop"]
    /\ reqCount' = [reqCount EXCEPT ![MainFlow] = 0]
    /\ respCount' = [respCount EXCEPT ![MainFlow] = 0]
    /\ listFailed' = [listFailed EXCEPT ![MainFlow] = FALSE]
    /\ tokenObjectIds' = [tokenObjectIds EXCEPT ![MainFlow] = <<>>]
    /\ i' = [i EXCEPT ![MainFlow] = 0]
    /\ txs' = [txs EXCEPT ![MainFlow] = <<>>]
    /\ events' = [events EXCEPT ![MainFlow] = <<>>]
    /\ submitFailed' = [submitFailed EXCEPT ![MainFlow] = FALSE]
    /\ listerCalls' = [listerCalls EXCEPT ![MainFlow] = 0]
    /\ UNCHANGED <<inFlight, remoteCalls, procVars, err, allBalances, balOutcome,
                   ownedTokens, mergeCalls, batchSize, allCoins, cursor, hasMore,
                   lastRequest, lastResponse, received>>

\* line 143: the awaited mergeCoinObjects rejected; main has no try: it rejects.
MainMergeThrew ==
    /\ Turn(MainFlow)
    /\ pc[MainFlow] = "merge_threw"
    /\ pc' = [pc EXCEPT ![MainFlow] = "main_rejected"]
    /\ UNCHANGED <<inFlight, listerCalls, remoteCalls, procVars, err, mainVars, batchSize,
                   listVars, tokenObjectIds, batchVars>>

\* line 151: main() resolved; the script's process ends normally.
ProcessExitResolved ==
    /\ Turn(MainFlow)
    /\ mode = "script"
    /\ pc[MainFlow] = "main_resolved"
    /\ exitCode' = 0
    /\ pc' = [pc EXCEPT ![MainFlow] = "exited"]
    /\ UNCHANGED <<inFlight, listerCalls, remoteCalls, mode, keyOk, err, mainVars, batchSize,
                   listVars, tokenObjectIds, batchVars>>

\* line 151: main() rejected; .catch(console.error) logs the error and the
\* script's process ends.
ProcessExitRejected ==
    /\ Turn(MainFlow)
    /\ mode = "script"
    /\ pc[MainFlow] = "main_rejected"
    /\ exitCode' = ExitStatusAfterCatch(err[MainFlow])
    /\ pc' = [pc EXCEPT ![MainFlow] = "exited"]
    /\ UNCHANGED <<inFlight, listerCalls, remoteCalls, mode, keyOk, err, mainVars, batchSize,
                   listVars, tokenObjectIds, batchVars>>

\* line 151 in an importing process: main() settled (a rejection is logged by
\* the catch handler); the process goes on as long as the importer does.
MainSettled ==
    /\ Turn(MainFlow)
    /\ mode = "import"
    /\ pc[MainFlow] \in {"main_resolved", "main_rejected"}
    /\ pc' = [pc EXCEPT ![MainFlow] = "main_settled"]
    /\ UNCHANGED <<inFlight, listerCalls, remoteCalls, procVars, err, mainVars, batchSize,
                   listVars, tokenObjectIds, batchVars>>

\* the steps of main() outside the mergeCoinObjects runs it makes
MainSteps ==
    \/ MainStart
    \/ MainKeyFail
    \/ GetOwnedTokensOk
    \/ GetOwnedTokensFail
    \/ MainCheckOwned
    \/ MainCallMerge
    \/ MainLoopDone
    \/ MainMergeReturned
    \/ MainMergeThrew
    \/ ProcessExitResolved
    \/ ProcessExitRejected
    \/ MainSettled

\* the steps of the mergeCoinObjects run of flow f, but the arrival of a page
RunSteps(f) ==
    \/ MergeStart(f)
    \/ MergeKeyFail(f)
    \/ ListerRequest(f)
    \/ ListerReturn(f)
    \/ ListerFail(f)
    \/ MergeCheck(f)
    \/ BatchSubmit(f)
    \/ BatchSkip(f)
    \/ SubmitOk(f)
    \/ SubmitFail(f)
    \/ PauseElapsed(f)
    \/ MergeDone(f)
    \/ CallSettled(f)

\* every step but the arrival of a page
OtherSteps ==
    \/ MainSteps
    \/ \E f \in Calls : DirectCall(f)
    \/ \E f \in Flows : RunSteps(f)

Next == OtherSteps \/ \E f \in Flows : ListerResponse(f)

Spec == Init /\ [][Next]_vars

\* The same program against a server whose pages are never empty.
NextNonEmpty == OtherSteps \/ \E f \in Flows : ListerResponseNonEmpty(f)

\* the steps by which flow f goes on once it is started
Progress(f) ==
    \/ f = MainFlow /\ MainSteps
    \/ RunSteps(f)
    \/ ListerResponseNonEmpty(f)

\* Every remote call is answered (with a result or an error) and the event
\* loop gives every flow that is ready the thread in the end, however often
\* other flows take it in between: strong fairness of each flow's steps.
\* Whether and when an importer calls mergeCoinObjects is up to the importer.
SpecNonEmpty == Init /\ [][NextNonEmpty]_vars /\ \A f \in Flows : SF_vars(Progress(f))

TypeOK ==
    /\ mode \in {"script", "import"}
    /\ keyOk \in [Flows -> BOOLEAN]
    /\ err \in [Flows -> {"none", "key", "submit"}]
    /\ exitCode \in {-1, 0, 1}
    /\ batchSize \in [Flows -> 1..MaxBatchSize]
    /\ i \in [Flows -> Nat]
    /\ hasMore \in [Flows -> BOOLEAN]
    /\ \A f \in Flows : reqCount[f] \in 0..MaxPages /\ respCount[f] \in 0..reqCount[f]
    /\ Len(inFlight) <= Cardinality(Flows)
    /\ remoteCalls \in 0..MaxRemoteCalls

\* ------------------------------------------------- vocabulary of the claims
RECURSIVE Count(_, _)
Count(s, x) ==
    IF s = <<>> THEN 0 ELSE (IF Head(s) = x THEN 1 ELSE 0) + Count(Tail(s), x)

\* of the current run of flow f
Submissions(f) == Count(events[f], "submit")
Pauses(f) == Count(events[f], "pause")

\* getAllTokenObjectIds has just returned to mergeCoinObjects in flow f
ListerReturned(f) == pc[f] = "merge_check"
\* the mergeCoinObjects run of flow f has returned normally / has thrown
RunReturned(f) == pc[f] = "merge_returned"
RunThrew(f) == pc[f] = "merge_threw"

CeilDiv(n, B) == (n + B - 1) \div B
\* sizes of the batches of a partition of n elements into batches of B
BatchSizes(n, B) == [k \in 1..CeilDiv(n, B) |-> Min(B, n - (k - 1) * B)]
Singles(n, B) == Cardinality({k \in 1..CeilDiv(n, B) : BatchSizes(n, B)[k] = 1})

Range(s) == {s[k] : k \in 1..Len(s)}
Distinct(s) == \A a, b \in 1..Len(s) : a /= b => s[a] /= s[b]

\* ----------------------------------------------------------------------- C1
\* C1 (as claimed): whatever pages the server gives, the sequence returned
\* by getAllTokenObjectIds has at most ObjectCap identifiers.
C1_AtMostCap ==
    \A f \in Flows :
        ListerReturned(f) => Len(tokenObjectIds[f]) <= ObjectCap

\* C1 (amended): the returned sequence has at most ObjectCap + PageLimit - 1
\* identifiers: the cap is tested after a whole page is appended and nothing
\* is cut off, so only the last page can carry the length past the cap.
C1_AtMostCapPlusPage ==
    \A f \in Flows :
        ListerReturned(f) =>
            /\ Len(tokenObjectIds[f]) <= ObjectCap + PageLimit - 1
            /\ Len(tokenObjectIds[f]) > ObjectCap =>
                  Len(tokenObjectIds[f]) - Len(lastResponse[f].data) < ObjectCap

\* the lister returns cap + limit - 1 identifiers while the server has more
C1_Witness ==
    /\ ListerReturned(MainFlow)
    /\ Len(tokenObjectIds[MainFlow]) = ObjectCap + PageLimit - 1
    /\ lastResponse[MainFlow].hasNextPage

\* ----------------------------------------------------------------------- C2
\* C2 (as claimed): a run without failure over N identifiers with batch size
\* B submits ceil(N/B) - (batches of exactly one element) transactions, and
\* at most one batch has exactly one element.
C2_CountAndOneSingle ==
    \A f \in Flows :
        (RunReturned(f) /\ ~listFailed[f]) =>
            LET n == Len(tokenObjectIds[f])
            IN  /\ Submissions(f) = CeilDiv(n, batchSize[f]) - Singles(n, batchSize[f])
                /\ Singles(n, batchSize[f]) <= 1

\* C2 (amended): the count is as claimed; at most one batch, the last, has
\* exactly one element when B >= 2, but with B = 1 every batch has exactly
\* one element and nothing is submitted.
C2_Count ==
    \A f \in Flows :
        (RunReturned(f) /\ ~listFailed[f]) =>
            LET n == Len(tokenObjectIds[f])
                B == batchSize[f]
            IN  /\ Submissions(f) = CeilDiv(n, B) - Singles(n, B)
                /\ Len(txs[f]) = Submissions(f)
                /\ B >= 2 => /\ Singles(n, B) <= 1
                             /\ Singles(n, B) = 1 => BatchSizes(n, B)[CeilDiv(n, B)] = 1
                /\ B = 1 => Singles(n, B) = n /\ Submissions(f) = 0

\* three identifiers in batches of two: one submission, the third is skipped
C2_Witness ==
    /\ RunReturned(MainFlow)
    /\ ~listFailed[MainFlow]
    /\ Len(tokenObjectIds[MainFlow]) = 3
    /\ batchSize[MainFlow] = 2
    /\ Submissions(MainFlow) = 1
    /\ Singles(3, 2) = 1

\* ----------------------------------------------------------------------- C3
\* C3: when a page request fails, getAllTokenObjectIds returns the empty
\* sequence to its caller without an error: what earlier pages brought is
\* discarded, the request is not repeated and no further page is requested.
C3_FailureGivesEmpty ==
    \A f \in Flows :
        listFailed[f] =>
            /\ tokenObjectIds[f] = <<>>
            /\ err[f] = "none"
            /\ reqCount[f] = respCount[f] + 1
            /\ pc[f] \in {"merge_check", "merge_returned", "main_loop", "main_resolved",
                          "main_settled", "exited"}

\* the third request fails after two pages brought identifiers
C3_Witness ==
    /\ listFailed[MainFlow]
    /\ ListerReturned(MainFlow)
    /\ respCount[MainFlow] = 2
    /\ Len(allCoins[MainFlow]) >= 2

\* ----------------------------------------------------------------------- C4
\* C4: when no page request fails, getAllTokenObjectIds returns exactly the
\* identifiers of the pages it requested, in the order received; the first
\* request carries the null cursor and each later one the nextCursor of the
\* response before it (an absent nextCursor is sent as null).
C4_Concatenation ==
    \A f \in Flows :
        /\ (ListerReturned(f) /\ ~listFailed[f]) =>
              /\ tokenObjectIds[f] = received[f]
              /\ reqCount[f] = respCount[f]
        /\ pc[f] = "list_wait" =>
              /\ respCount[f] = reqCount[f] - 1
              /\ lastRequest[f] =
                    IF reqCount[f] = 1 THEN NullCursor
                    ELSE IF lastResponse[f].nextCursor = Undefined THEN NullCursor
                    ELSE lastResponse[f].nextCursor

\* three pages, the last request carrying a server cursor
C4_Witness ==
    /\ ListerReturned(MainFlow)
    /\ ~listFailed[MainFlow]
    /\ respCount[MainFlow] = 3
    /\ Len(tokenObjectIds[MainFlow]) >= 3
    /\ lastRequest[MainFlow] = 2

\* ----------------------------------------------------------------------- C5
\* C5: when the lister yields 0 or 1 identifiers, mergeCoinObjects returns
\* at once and normally: no batch is formed, nothing is submitted and no
\* pause is taken, whatever the batch size.
C5_NothingToMerge ==
    \A f \in Flows :
        Len(tokenObjectIds[f]) <= 1 =>
            /\ events[f] = <<>>
            /\ txs[f] = <<>>
            /\ pc[f] \notin {"batch_loop", "submit_wait", "pause_wait"}
            /\ RunThrew(f) => err[f] = "key" /\ reqCount[f] = 0

\* one identifier listed for a direct call with batch size 1; it has returned
C5_Witness ==
    \E f \in Calls :
        /\ RunReturned(f)
        /\ ~listFailed[f]
        /\ Len(tokenObjectIds[f]) = 1
        /\ batchSize[f] = 1

\* ----------------------------------------------------------------------- C6
\* C6 (as claimed): in a run without failure that submits at least once, the
\* pauses number one less than the submissions and no pause follows the last
\* submission.
C6_PausesBetweenOnly ==
    \A f \in Flows :
        (RunReturned(f) /\ Submissions(f) >= 1) =>
            /\ Pauses(f) = Submissions(f) - 1
            /\ events[f][Len(events[f])] = "submit"

\* C6 (amended): a pause is taken after every submission whose batch is not
\* the last batch of the partition, and only then.  The pauses number one
\* less than the submissions when the last batch is submitted; when the last
\* batch is a single identifier (N mod B = 1, N > B), it is skipped, so the
\* pauses equal the submissions and a pause follows the last submission.
C6_PauseUnlessLastBatch ==
    \A f \in Flows :
        /\ \A k \in 1..Len(events[f]) :
              events[f][k] = "pause" => (k > 1 /\ events[f][k - 1] = "submit")
        /\ (RunReturned(f) /\ Submissions(f) >= 1) =>
              LET n == Len(tokenObjectIds[f])
                  lastIsSingle == n > batchSize[f] /\ n % batchSize[f] = 1
              IN  /\ Pauses(f) = IF lastIsSingle THEN Submissions(f) ELSE Submissions(f) - 1
                  /\ events[f][Len(events[f])] = IF lastIsSingle THEN "pause" ELSE "submit"

\* a direct call over four identifiers in batches of two: submit, pause,
\* submit
C6_Witness ==
    \E f \in Calls :
        /\ RunReturned(f)
        /\ Len(tokenObjectIds[f]) = 4
        /\ batchSize[f] = 2
        /\ events[f] = <<"submit", "pause", "submit">>

\* ----------------------------------------------------------------------- C7
\* C7 (as claimed): a mergeCoinObjects run in which any step failed (a page
\* request, the key pair, a submission) ends by throwing that error.
C7_AnyFailurePropagates ==
    \A f \in Flows :
        ((RunReturned(f) \/ RunThrew(f)) /\ (listFailed[f] \/ submitFailed[f] \/ ~keyOk[f])) =>
            (RunThrew(f) /\ err[f] /= "none")

\* C7 (amended): a failed submission, or a key pair that cannot be built,
\* ends the run with that error thrown to the caller, and a run that returns
\* normally had no such failure; a failed page request is not an error of
\* the run: the lister answers with the empty sequence and the run returns
\* normally without submitting.
C7_SubmitFailurePropagates ==
    /\ \A f \in Flows :
          /\ submitFailed[f] =>
                /\ err[f] = "submit"
                /\ pc[f] \in {"merge_threw", "main_rejected", "main_settled", "exited"}
          /\ RunReturned(f) => (~submitFailed[f] /\ err[f] = "none")
          /\ listFailed[f] => (~RunThrew(f) /\ err[f] = "none" /\ events[f] = <<>>)
    /\ \A f \in Calls :
          (~keyOk[f] /\ pc[f] \notin {"idle", "merge_start"}) =>
              (RunThrew(f) /\ err[f] = "key")

\* the second submission of a run fails and the run has thrown
C7_Witness ==
    \E f \in Calls :
        /\ RunThrew(f)
        /\ submitFailed[f]
        /\ err[f] = "submit"
        /\ events[f] = <<"submit", "pause", "submit">>

\* ----------------------------------------------------------------------- C8
\* C8: when the balance listing fails or answers with no entry,
\* getOwnedTokens returns the empty list without an error, and main makes no
\* mergeCoinObjects call (no coin listing, no submission) and ends normally.
C8_NothingOwned ==
    balOutcome \in {"failed", "empty"} =>
        /\ ownedTokens = <<>>
        /\ mergeCalls = <<>>
        /\ reqCount[MainFlow] = 0
        /\ events[MainFlow] = <<>>
        /\ err[MainFlow] = "none"
        /\ pc[MainFlow] \in {"main_owned", "main_resolved", "main_settled", "exited"}
        /\ pc[MainFlow] = "exited" => exitCode = 0

\* the balance listing failed and the process has ended
C8_Witness ==
    /\ balOutcome = "failed"
    /\ pc[MainFlow] = "exited"
    /\ mergeCalls = <<>>

\* ----------------------------------------------------------------------- C9
\* C9: the process ends with a non-zero exit status whenever an error
\* escaped main, and with status 0 only when main completed normally.
C9_ExitStatus ==
    pc[MainFlow] = "exited" => (exitCode = 0 <=> err[MainFlow] = "none")

\* ---------------------------------------------------------------------- C10
\* C10 (as claimed): getOwnedTokens returns pairwise distinct token types,
\* exactly those the response reports with a nonzero balance.
C10_DistinctNonZero ==
    (pc[MainFlow] = "main_owned" /\ balOutcome /= "failed") =>
        /\ Distinct(ownedTokens)
        /\ Range(ownedTokens) =
              {b.coinType : b \in {e \in Range(allBalances) : e.totalBalance /= 0}}

\* C10 (amended): getOwnedTokens returns the token type of every entry of
\* the response, one per entry and in the response's order, whatever the
\* balance and whether or not the type was already seen.
C10_OnePerEntry ==
    (pc[MainFlow] = "main_owned" /\ balOutcome /= "failed") =>
        /\ Len(ownedTokens) = Len(allBalances)
        /\ \A k \in 1..Len(allBalances) : ownedTokens[k] = allBalances[k].coinType

\* a response that repeats a token type, once with a zero balance
C10_Witness ==
    /\ pc[MainFlow] = "main_owned"
    /\ Len(allBalances) = 2
    /\ allBalances[1].coinType = allBalances[2].coinType
    /\ allBalances[2].totalBalance = 0
    /\ Len(ownedTokens) = 2

\* ---------------------------------------------------------------------- C11
\* positions inside a mergeCoinObjects run, and inside its listing
ListerPcs == {"list_loop", "list_wait", "list_return"}
RunPcs == {"merge_start", "merge_check", "batch_loop", "submit_wait", "pause_wait",
           "merge_returned", "merge_threw"} \cup ListerPcs

\* the outstanding calls of flow f, and the call flow f is waiting for
CallsOf(f) == SelectSeq(inFlight, LAMBDA c : c[1] = f)
Awaited(f) ==
    IF pc[f] = "balances_wait" THEN << <<f, "getAllBalances">> >>
    ELSE IF pc[f] = "list_wait" THEN << <<f, "getCoins">> >>
    ELSE IF pc[f] = "submit_wait" THEN << <<f, "signAndExecuteTransaction">> >>
    ELSE <<>>

\* C11: in every state of a run at most one remote call of the run is
\* outstanding, and it is the call the run is waiting for: a page is
\* requested only after the previous page was answered, a batch is submitted
\* only after the previous submission was answered and its pause elapsed,
\* and in main the run for a token type is started only after the run for
\* the previous one has returned.  A run is main() with the
\* mergeCoinObjects calls it makes, or one direct call of mergeCoinObjects;
\* the process of the script, whose only run is main's, never has two
\* remote calls outstanding.
C11_OneOutstanding ==
    /\ [](\A f \in Flows :
             /\ Len(CallsOf(f)) <= 1
             /\ CallsOf(f) = Awaited(f)
             /\ reqCount[f] \in {respCount[f], respCount[f] + 1}
             /\ pc[f] = "list_wait" <=> (reqCount[f] = respCount[f] + 1 /\ ~listFailed[f]))
    /\ [](mode = "script" => Len(inFlight) <= 1)
    /\ [](/\ pc[MainFlow] \in RunPcs => Len(mergeCalls) = tokIdx
          /\ pc[MainFlow] = "main_loop" => Len(mergeCalls) = tokIdx - 1)
    /\ [][\A f \in Flows :
             (Len(txs'[f]) > Len(txs[f]) \/ reqCount'[f] > reqCount[f]) =>
                /\ CallsOf(f) = <<>>
                /\ pc[f] \notin WaitPcs(f)]_vars
    /\ [][mergeCalls' /= mergeCalls =>
             /\ CallsOf(MainFlow) = <<>>
             /\ pc[MainFlow] = "main_loop"]_vars

\* the script's main has finished the run for its first token type and
\* waits for the first page of the second: one call outstanding
C11_Witness ==
    /\ mode = "script"
    /\ Len(mergeCalls) = 2
    /\ tokIdx = 2
    /\ pc[MainFlow] = "list_wait"
    /\ inFlight = << <<MainFlow, "getCoins">> >>

\* ---------------------------------------------------------------------- C12
\* C12: getAllTokenObjectIds requests a page only if it is the first one or
\* the response before it reported hasNextPage and left the accumulated count
\* below the cap; so when every page is full, the server always has more and
\* the page limit divides the cap, it returns exactly ObjectCap identifiers
\* after exactly ObjectCap / PageLimit requests.
C12_StopsAtCapOrLastPage ==
    /\ [][\A f \in Flows :
             reqCount'[f] = reqCount[f] + 1 =>
                \/ respCount[f] = 0
                \/ lastResponse[f].hasNextPage /\ Len(allCoins[f]) < ObjectCap]_vars
    /\ [](\A f \in Flows :
             (/\ ListerReturned(f)
              /\ ~listFailed[f]
              /\ Len(received[f]) = PageLimit * respCount[f]
              /\ lastResponse[f].hasNextPage
              /\ ObjectCap % PageLimit = 0)
             => (/\ Len(tokenObjectIds[f]) = ObjectCap
                 /\ reqCount[f] = ObjectCap \div PageLimit))

\* full pages up to the cap, the server still reporting a next page
C12_Witness ==
    /\ ListerReturned(MainFlow)
    /\ ~listFailed[MainFlow]
    /\ Len(received[MainFlow]) = PageLimit * respCount[MainFlow]
    /\ lastResponse[MainFlow].hasNextPage
    /\ Len(tokenObjectIds[MainFlow]) = ObjectCap
    /\ reqCount[MainFlow] = ObjectCap \div PageLimit

\* ---------------------------------------------------------------------- C13
\* C13: the m-th transaction of a run is built from the m-th contiguous
\* slice of the listed sequence, s[(m-1)B+1 .. min(mB, N)] in 1-based terms:
\* the slice has more than one element, its first identifier is the merge
\* target and exactly its other identifiers, in order, are merged into it.
C13_BatchIsSlice ==
    \A f \in Flows :
        \A m \in 1..Len(txs[f]) :
            LET s == tokenObjectIds[f]
                lo == (m - 1) * batchSize[f]
                hi == Min(m * batchSize[f], Len(s))
            IN  /\ hi - lo > 1
                /\ txs[f][m].primary = s[lo + 1]
                /\ txs[f][m].merged = [j \in 1..(hi - lo - 1) |-> s[lo + 1 + j]]

\* a direct call over four identifiers in batches of two: {1,2} and {3,4}
C13_Witness ==
    \E f \in Calls :
        /\ RunReturned(f)
        /\ Len(tokenObjectIds[f]) = 4
        /\ batchSize[f] = 2
        /\ txs[f] = << [primary |-> 1, merged |-> <<2>>], [primary |-> 3, merged |-> <<4>>] >>

\* ---------------------------------------------------------------------- C14
\* C14: once the submission of a batch has failed, nothing more is submitted
\* in the run (not that batch again, no later batch), no pause is taken, no
\* page is requested and the run ends with the error; within a run the list
\* of submitted transactions only grows at its end, and no batch is
\* submitted twice.
C14_NoRetryAfterFailure ==
    /\ [][\A f \in Flows :
             (submitFailed[f] /\ pc'[f] /= "idle") =>
                /\ submitFailed'[f]
                /\ txs'[f] = txs[f]
                /\ events'[f] = events[f]
                /\ reqCount'[f] = reqCount[f]]_vars
    /\ [](\A f \in Flows :
             submitFailed[f] =>
                /\ err[f] = "submit"
                /\ pc[f] \in {"merge_threw", "main_rejected", "main_settled", "exited"}
                /\ events[f][Len(events[f])] = "submit")
    /\ [][\A f \in Flows :
             (pc[f] \in RunPcs /\ pc'[f] \in RunPcs) =>
                /\ Len(txs'[f]) >= Len(txs[f])
                /\ \A m \in 1..Len(txs[f]) : txs'[f][m] = txs[f][m]]_vars
    /\ [](\A f \in Flows :
             \A a, b \in 1..Len(txs[f]) : a /= b => txs[f][a].primary /= txs[f][b].primary)

\* the first of two batches failed: one submission, the run has thrown
C14_Witness ==
    /\ RunThrew(MainFlow)
    /\ submitFailed[MainFlow]
    /\ Len(tokenObjectIds[MainFlow]) = 4
    /\ batchSize[MainFlow] = 2
    /\ Len(txs[MainFlow]) = 1
    /\ events[MainFlow] = <<"submit">>

\* ---------------------------------------------------------------------- C15
\* C15: main calls mergeCoinObjects for the token types getOwnedTokens
\* returned, one call per position, in that order and with the default batch
\* size; a main that ends without error has made the call for every
\* position; once a call has ended with an error, main makes no further
\* call, request or submission and ends with that error.
C15_OneCallPerTokenInOrder ==
    /\ [](/\ Len(mergeCalls) <= Len(ownedTokens)
          /\ \A k \in 1..Len(mergeCalls) :
                mergeCalls[k] = <<ownedTokens[k], DefaultBatchSize>>
          /\ (pc[MainFlow] \in {"exited", "main_settled"} /\ err[MainFlow] = "none") =>
                Len(mergeCalls) = Len(ownedTokens)
          /\ err[MainFlow] /= "none" =>
                pc[MainFlow] \in {"merge_threw", "main_rejected", "main_settled", "exited"})
    /\ [][err[MainFlow] /= "none" =>
             /\ err'[MainFlow] = err[MainFlow]
             /\ mergeCalls' = mergeCalls
             /\ reqCount'[MainFlow] = reqCount[MainFlow]
             /\ txs'[MainFlow] = txs[MainFlow]]_vars

\* the call for the first of two different token types failed; main ended
C15_Witness ==
    /\ pc[MainFlow] = "exited"
    /\ err[MainFlow] = "submit"
    /\ Len(ownedTokens) = 2
    /\ ownedTokens[1] /= ownedTokens[2]
    /\ mergeCalls = << <<ownedTokens[1], DefaultBatchSize>> >>

\* ---------------------------------------------------------------------- C16
\* C16: against a server whose every page holds at least one identifier,
\* getAllTokenObjectIds issues at most ObjectCap page requests and always
\* returns, whatever hasNextPage values the server sends: every answered
\* page brought an identifier, the loop is left at the cap, and in the end
\* no flow is inside the lister any more.  (In the model a listing also
\* stops where the bound on remote calls stops it.)
C16_ListerTerminates ==
    /\ [](\A f \in Flows :
             /\ reqCount[f] <= ObjectCap
             /\ pc[f] \in {"list_loop", "list_wait"} =>
                   /\ Len(allCoins[f]) >= respCount[f]
                   /\ Len(allCoins[f]) < ObjectCap)
    /\ <>[](\A f \in Flows : pc[f] \notin ListerPcs \/ AtBound(f))

\* ObjectCap pages of one identifier each, every one reporting a next page
C16_Witness ==
    \E f \in Calls :
        /\ ListerReturned(f)
        /\ ~listFailed[f]
        /\ reqCount[f] = ObjectCap
        /\ Len(tokenObjectIds[f]) = ObjectCap
        /\ lastResponse[f].hasNextPage

\* ---------------------------------------------------------------------- C17
\* the identifiers named by a sequence of transactions, in order
RECURSIVE IdsIn(_)
IdsIn(ts) ==
    IF ts = <<>> THEN <<>>
    ELSE <<Head(ts).primary>> \o Head(ts).merged \o IdsIn(Tail(ts))

\* C17 (as claimed): after a run without failure over N >= 2 distinct
\* identifiers, every listed identifier is in exactly one transaction,
\* except the last one when N mod B = 1; none is in two transactions and
\* none is foreign.
C17_EveryIdOnce ==
    \A f \in Flows :
        (RunReturned(f) /\ ~listFailed[f] /\ Len(tokenObjectIds[f]) >= 2) =>
            LET s == tokenObjectIds[f]
                ids == IdsIn(txs[f])
            IN  /\ Distinct(ids)
                /\ Range(ids) \subseteq Range(s)
                /\ \A k \in 1..Len(s) :
                      s[k] \in Range(ids) <=> ~(Len(s) % batchSize[f] = 1 /\ k = Len(s))

\* C17 (amended): no identifier is ever in two transactions and none is
\* foreign; after a run without failure over N >= 2 distinct identifiers
\* with B >= 2, every listed identifier is in exactly one transaction except
\* the last one when N mod B = 1; with B = 1 no identifier is in any
\* transaction.
C17_EveryIdOnceUnlessBatchOfOne ==
    \A f \in Flows :
        /\ Distinct(IdsIn(txs[f]))
        /\ Range(IdsIn(txs[f])) \subseteq Range(tokenObjectIds[f])
        /\ (RunReturned(f) /\ ~listFailed[f] /\ Len(tokenObjectIds[f]) >= 2) =>
              LET s == tokenObjectIds[f]
                  ids == IdsIn(txs[f])
              IN  /\ batchSize[f] >= 2 =>
                        \A k \in 1..Len(s) :
                            s[k] \in Range(ids) <=> ~(Len(s) % batchSize[f] = 1 /\ k = Len(s))
                  /\ batchSize[f] = 1 => ids = <<>>

\* three identifiers in batches of two: 1 and 2 are merged, 3 is left out
C17_Witness ==
    /\ RunReturned(MainFlow)
    /\ ~listFailed[MainFlow]
    /\ Len(tokenObjectIds[MainFlow]) = 3
    /\ batchSize[MainFlow] = 2
    /\ IdsIn(txs[MainFlow]) = <<1, 2>>

\* ---------------------------------------------------------------------- C18
\* C18: a mergeCoinObjects run calls getAllTokenObjectIds exactly once, and
\* that call has returned before the first submission: once the run has
\* submitted, no page is requested, the listing is not entered again and the
\* listed sequence the batches are cut from does not change.
C18_SingleSnapshot ==
    /\ [](\A f \in Flows : listerCalls[f] <= 1)
    /\ [](\A f \in Flows :
             pc[f] \in {"batch_loop", "submit_wait", "pause_wait"} => listerCalls[f] = 1)
    /\ [](\A f \in Flows :
             events[f] /= <<>> =>
                /\ listerCalls[f] = 1
                /\ pc[f] \notin ListerPcs \cup {"merge_start", "merge_check"}
                /\ reqCount[f] \in {respCount[f], respCount[f] + 1})
    /\ [][\A f \in Flows :
             (events[f] /= <<>> /\ events'[f] /= <<>>) =>
                /\ reqCount'[f] = reqCount[f]
                /\ listerCalls'[f] = listerCalls[f]
                /\ tokenObjectIds'[f] = tokenObjectIds[f]]_vars

\* a direct call listed two pages once and then submitted two batches
C18_Witness ==
    \E f \in Calls :
        /\ RunReturned(f)
        /\ listerCalls[f] = 1
        /\ reqCount[f] = 2
        /\ respCount[f] = 2
        /\ Len(txs[f]) = 2
====
